---------------------------- MODULE Spec2Model ----------------------------
(***************************************************************************)
(* Retail sales analytics (src/analysis.py): the record generator, the     *)
(* table cleaner, the grouped aggregations, the insight extraction and the *)
(* data side of the dashboard, as state machines over small tables.        *)
(*                                                                         *)
(* Money is kept in integer units (cents for generated prices); a float    *)
(* quotient such as a mean is kept exactly as a fraction [num, den], and   *)
(* 0/0 is the NaN pandas returns for the mean or median of no values.      *)
(***************************************************************************)
EXTENDS Integers, Sequences, FiniteSets, TLC

VARIABLES
    pc,        \* position in the analysis pipeline of main()
    df,        \* the table the pipeline currently holds
    dfIn,      \* the table handed to the latest data_cleaning call
    passes,    \* number of data_cleaning calls made so far
    printed,   \* what the latest data_cleaning call printed
    stats,     \* what descriptive_statistics computed
    insights,  \* what key_insights computed
    charts,    \* the series create_visualizations plotted
    outcome,   \* "ok", or the exception that ended the pipeline
    rng,       \* state of the process-wide numpy generator
    ncalls,    \* number of generate_sample_data calls made so far
    call1,     \* record of the first generate_sample_data call
    call2      \* record of the second generate_sample_data call

vars == <<pc, df, dfIn, passes, printed, stats, insights, charts, outcome,
          rng, ncalls, call1, call2>>

pipeVars == <<pc, df, dfIn, passes, printed, stats, insights, charts, outcome>>
genVars == <<rng, ncalls, call1, call2>>

-----------------------------------------------------------------------------
(* Bounds of the model *)

MaxRows == 3        \* longest raw table handed to the cleaner
MaxSale == 2        \* largest Total_Sales of an aggregated row
MaxPasses == 2      \* data_cleaning calls made in a row on one table
NumTopProducts == 8 \* distinct products available to the ranking tables
MaxN == 2           \* largest n_orders passed to the generator
MaxNeg == 1         \* most negative n_orders passed to the generator
MaxSeed == 1        \* largest seed passed to the generator
RngMod == 16        \* number of states of the modelled generator

(* Program constants *)

TopN == 7           \* head(7)

-----------------------------------------------------------------------------
(* Small helpers *)

Min(a, b) == IF a <= b THEN a ELSE b

Range(s) == {s[i] : i \in DOMAIN s}

RECURSIVE SumSeq(_)
SumSeq(s) == IF s = <<>> THEN 0 ELSE Head(s) + SumSeq(Tail(s))

NaN == [num |-> 0, den |-> 0]

Frac(a, b) == [num |-> a, den |-> b]

-----------------------------------------------------------------------------
(* The fixed enumerations of the generator, in the order the code lists    *)
(* them, and the same values in the ascending string order in which a      *)
(* pandas groupby (sort=True) yields its keys.                             *)

categories == <<"Electronics", "Clothing", "Home & Garden", "Sports", "Books">>
category_weights == <<25, 30, 20, 15, 10>>

cities == <<"Sydney", "Melbourne", "Brisbane", "Perth", "Adelaide">>
city_weights == <<30, 25, 20, 15, 10>>

segments == <<"Premium", "Regular", "New", "VIP">>
segment_weights == <<20, 45, 20, 15>>

payments == <<"Credit Card", "PayPal", "Bank Transfer", "Cash">>
payment_weights == <<40, 30, 20, 10>>

products == [c \in Range(categories) |->
    CASE c = "Electronics" -> <<"Laptop", "Smartphone", "Tablet", "Headphones", "Smart Watch">>
      [] c = "Clothing" -> <<"T-Shirt", "Jeans", "Jacket", "Dress", "Shoes">>
      [] c = "Home & Garden" -> <<"Furniture", "Kitchenware", "Bedding", "Decor", "Tools">>
      [] c = "Sports" -> <<"Bike", "Yoga Mat", "Dumbbells", "Tennis Racket", "Running Shoes">>
      [] c = "Books" -> <<"Fiction", "Non-Fiction", "Textbook", "Cookbook", "Biography">>]

SortedCategories == <<"Books", "Clothing", "Electronics", "Home & Garden", "Sports">>
SortedRegions == <<"Adelaide", "Brisbane", "Melbourne", "Perth", "Sydney">>
SortedSegments == <<"New", "Premium", "Regular", "VIP">>
SortedPayments == <<"Bank Transfer", "Cash", "Credit Card", "PayPal">>
SortedProducts ==
    <<"Bedding", "Bike", "Biography", "Cookbook", "Decor", "Dress", "Dumbbells",
      "Fiction", "Furniture", "Headphones", "Jacket", "Jeans", "Kitchenware",
      "Laptop", "Non-Fiction", "Running Shoes", "Shoes", "Smart Watch",
      "Smartphone", "T-Shirt", "Tablet", "Tennis Racket", "Textbook", "Tools",
      "Yoga Mat">>

KeyOrder(field) ==
    CASE field = "Product_Category" -> SortedCategories
      [] field = "Region" -> SortedRegions
      [] field = "Customer_Segment" -> SortedSegments
      [] field = "Payment_Method" -> SortedPayments
      [] field = "Product" -> SortedProducts
      [] field = "Month" -> [m \in 1..12 |-> m]
      [] field = "Quarter" -> [q \in 1..4 |-> q]

-----------------------------------------------------------------------------
(* Table cleaner: data_cleaning *)

RECURSIVE DropDuplicatesFrom(_, _)
DropDuplicatesFrom(t, seen) ==
    IF t = <<>> THEN <<>>
    ELSE IF Head(t) \in seen THEN DropDuplicatesFrom(Tail(t), seen)
    ELSE <<Head(t)>> \o DropDuplicatesFrom(Tail(t), seen \cup {Head(t)})

\* Variant: compares each row with the row just before it only
RECURSIVE DropDuplicatesConsecutive(_)
DropDuplicatesConsecutive(t) ==
    IF Len(t) < 2 THEN t
    ELSE LET rest == DropDuplicatesConsecutive(SubSeq(t, 1, Len(t) - 1))
         IN IF t[Len(t)] = t[Len(t) - 1] THEN rest ELSE rest \o <<t[Len(t)]>>

DropDuplicates(t) == DropDuplicatesFrom(t, {})

QuantityPositive(r) == r.Quantity > 0
UnitPricePositive(r) == r.Unit_Price > 0
\* Variant: lets a total of zero through
TotalSalesNonNegative(r) == r.Total_Sales >= 0
TotalSalesPositive(r) == r.Total_Sales > 0

EnsurePositive(t) ==
    SelectSeq(SelectSeq(SelectSeq(t, QuantityPositive), UnitPricePositive),
              TotalSalesPositive)

DataCleaning(t) == EnsurePositive(DropDuplicates(t))

CleaningPrints(t) ==
    [duplicates_removed |-> Len(t) - Len(DropDuplicates(t)),
     records_after |-> Len(DataCleaning(t))]

NoPrint == [duplicates_removed |-> 0, records_after |-> 0]

data_cleaning ==
    /\ \/ pc = "raw"
       \/ pc = "cleaned" /\ passes < MaxPasses
    /\ dfIn' = df
    /\ df' = DataCleaning(df)
    /\ printed' = CleaningPrints(df)
    /\ passes' = passes + 1
    /\ pc' = "cleaned"
    /\ UNCHANGED <<stats, insights, charts, outcome>>
    /\ UNCHANGED genVars

-----------------------------------------------------------------------------
(* Aggregator: df.groupby(field)['Total_Sales'] and its reductions *)

PresentKeys(t, field) ==
    LET Present(k) == \E i \in DOMAIN t : t[i][field] = k
    IN SelectSeq(KeyOrder(field), Present)

GroupRows(t, field, k) ==
    LET InGroup(r) == r[field] = k
    IN SelectSeq(t, InGroup)

TotalSalesOf(t) == [i \in DOMAIN t |-> t[i].Total_Sales]

GroupSum(t, field, k) == SumSeq(TotalSalesOf(GroupRows(t, field, k)))

GroupCount(t, field, k) == Len(GroupRows(t, field, k))

\* Variant: divides by the rows of the whole table
GroupMeanOverTable(t, field, k) == Frac(GroupSum(t, field, k), Len(t))

GroupMean(t, field, k) == Frac(GroupSum(t, field, k), GroupCount(t, field, k))

\* groupby(field)['Total_Sales'].sum(): one entry per key present, keys ascending
GroupBySum(t, field) ==
    LET keys == PresentKeys(t, field)
    IN [j \in 1..Len(keys) |->
          [key |-> keys[j], sum |-> GroupSum(t, field, keys[j])]]

\* groupby(field)['Total_Sales'].agg(['sum', 'mean', 'count'])
GroupByAgg(t, field) ==
    LET keys == PresentKeys(t, field)
    IN [j \in 1..Len(keys) |->
          [key |-> keys[j],
           sum |-> GroupSum(t, field, keys[j]),
           mean |-> GroupMean(t, field, keys[j]),
           count |-> GroupCount(t, field, keys[j])]]

\* sort_values(..., ascending=False) on a short series: entries with equal
\* sums keep the order they had
RECURSIVE InsertDescending(_, _)
InsertDescending(s, g) ==
    IF s = <<>> THEN <<g>>
    ELSE IF Head(s).sum >= g.sum THEN <<Head(s)>> \o InsertDescending(Tail(s), g)
    ELSE <<g>> \o s

RECURSIVE SortDescendingFrom(_, _)
SortDescendingFrom(acc, rest) ==
    IF rest = <<>> THEN acc
    ELSE SortDescendingFrom(InsertDescending(acc, Head(rest)), Tail(rest))

SortDescending(s) == SortDescendingFrom(<<>>, s)

\* sort_values() ascending
RECURSIVE InsertAscending(_, _)
InsertAscending(s, g) ==
    IF s = <<>> THEN <<g>>
    ELSE IF Head(s).sum <= g.sum THEN <<Head(s)>> \o InsertAscending(Tail(s), g)
    ELSE <<g>> \o s

RECURSIVE SortAscendingFrom(_, _)
SortAscendingFrom(acc, rest) ==
    IF rest = <<>> THEN acc
    ELSE SortAscendingFrom(InsertAscending(acc, Head(rest)), Tail(rest))

SortAscending(s) == SortAscendingFrom(<<>>, s)

\* idxmax(): position of the first entry holding the maximum
RECURSIVE IdxMaxFrom(_, _, _)
IdxMaxFrom(s, best, j) ==
    IF j > Len(s) THEN best
    ELSE IF s[j].sum > s[best].sum THEN IdxMaxFrom(s, j, j + 1)
    ELSE IdxMaxFrom(s, best, j + 1)

\* Variant: a later entry with an equal sum replaces the best so far
RECURSIVE IdxMaxLastFrom(_, _, _)
IdxMaxLastFrom(s, best, j) ==
    IF j > Len(s) THEN best
    ELSE IF s[j].sum >= s[best].sum THEN IdxMaxLastFrom(s, j, j + 1)
    ELSE IdxMaxLastFrom(s, best, j + 1)

IdxMaxLast(s) == s[IdxMaxLastFrom(s, 1, 2)].key

IdxMax(s) == s[IdxMaxFrom(s, 1, 2)].key

\* max()
RECURSIVE MaxSumFrom(_, _, _)
MaxSumFrom(s, m, j) ==
    IF j > Len(s) THEN m
    ELSE MaxSumFrom(s, IF s[j].sum > m THEN s[j].sum ELSE m, j + 1)

MaxSum(s) == MaxSumFrom(s, s[1].sum, 2)

\* head(n)
HeadN(s, n) == SubSeq(s, 1, Min(n, Len(s)))

\* Series.mean()
MeanOf(v) == Frac(SumSeq(v), Len(v))

\* Series.median(): the middle value, or the average of the two middle ones
RECURSIVE InsertValue(_, _)
InsertValue(s, x) ==
    IF s = <<>> THEN <<x>>
    ELSE IF Head(s) <= x THEN <<Head(s)>> \o InsertValue(Tail(s), x)
    ELSE <<x>> \o s

RECURSIVE SortValuesFrom(_, _)
SortValuesFrom(acc, rest) ==
    IF rest = <<>> THEN acc
    ELSE SortValuesFrom(InsertValue(acc, Head(rest)), Tail(rest))

MedianOf(v) ==
    LET s == SortValuesFrom(<<>>, v)
        n == Len(s)
    IN IF n = 0 THEN NaN
       ELSE IF n % 2 = 1 THEN Frac(s[(n + 1) \div 2], 1)
       ELSE Frac(s[n \div 2] + s[n \div 2 + 1], 2)

\* nunique()
NUnique(t, field) == Cardinality({t[i][field] : i \in DOMAIN t})

-----------------------------------------------------------------------------
(* descriptive_statistics *)

DescriptiveStatistics(t) ==
    [total_sales |-> SumSeq(TotalSalesOf(t)),
     avg_order |-> MeanOf(TotalSalesOf(t)),
     median_order |-> MedianOf(TotalSalesOf(t)),
     unique_customers |-> NUnique(t, "Customer_ID"),
     total_orders |-> Len(t),
     category_sales |-> SortDescending(GroupByAgg(t, "Product_Category")),
     region_sales |-> SortDescending(GroupByAgg(t, "Region"))]

NoStats == DescriptiveStatistics(<<>>)

\* The function has no guard on the row count: on an empty table it prints
\* a total of 0, nan for the mean and the median, and two empty group
\* tables, and returns normally.
descriptive_statistics ==
    /\ pc = "cleaned"
    /\ stats' = DescriptiveStatistics(df)
    /\ pc' = "stats"
    /\ UNCHANGED <<df, dfIn, passes, printed, insights, charts, outcome>>
    /\ UNCHANGED genVars

-----------------------------------------------------------------------------
(* key_insights *)

KeyInsights(t) ==
    [best_category |-> IdxMax(GroupBySum(t, "Product_Category")),
     best_category_sales |-> MaxSum(GroupBySum(t, "Product_Category")),
     top_region |-> IdxMax(GroupBySum(t, "Region")),
     top_region_sales |-> MaxSum(GroupBySum(t, "Region")),
     top_product |-> IdxMax(GroupBySum(t, "Product")),
     top_product_sales |-> MaxSum(GroupBySum(t, "Product")),
     top_segment |-> IdxMax(GroupBySum(t, "Customer_Segment")),
     quarterly |-> GroupBySum(t, "Quarter")]

NoInsights ==
    [best_category |-> "", best_category_sales |-> 0,
     top_region |-> "", top_region_sales |-> 0,
     top_product |-> "", top_product_sales |-> 0,
     top_segment |-> "", quarterly |-> <<>>]

\* idxmax() of the empty series of group sums raises ValueError at the first
\* lookup; nothing is printed and the exception leaves main().
key_insights ==
    /\ pc = "stats"
    /\ \/ /\ Len(df) = 0
          /\ outcome' = "ValueError"
          /\ pc' = "failed"
          /\ UNCHANGED insights
       \/ /\ Len(df) > 0
          /\ insights' = KeyInsights(df)
          /\ pc' = "insights"
          /\ UNCHANGED outcome
    /\ UNCHANGED <<df, dfIn, passes, printed, stats, charts>>
    /\ UNCHANGED genVars

-----------------------------------------------------------------------------
(* create_visualizations: the series behind the six panels *)

\* Variant: takes the head without sorting
TopProductsUnsorted(t) == HeadN(GroupBySum(t, "Product"), TopN)

TopProducts(t) == HeadN(SortDescending(GroupBySum(t, "Product")), TopN)

CreateVisualizations(t) ==
    [monthly |-> GroupBySum(t, "Month"),
     category_sales |-> GroupBySum(t, "Product_Category"),
     region_sales |-> SortAscending(GroupBySum(t, "Region")),
     segment_sales |-> GroupBySum(t, "Customer_Segment"),
     top_products |-> TopProducts(t),
     payment_sales |-> GroupBySum(t, "Payment_Method"),
     saved |-> TRUE]

NoCharts == [c \in {"monthly", "category_sales", "region_sales", "segment_sales",
                    "top_products", "payment_sales"} |-> <<>>] @@ [saved |-> FALSE]

create_visualizations ==
    /\ pc = "insights"
    /\ charts' = CreateVisualizations(df)
    /\ pc' = "done"
    /\ UNCHANGED <<df, dfIn, passes, printed, stats, insights, outcome>>
    /\ UNCHANGED genVars

-----------------------------------------------------------------------------
(* Record generator: generate_sample_data                                  *)
(*                                                                         *)
(* numpy's process-wide generator is a deterministic state machine: a      *)
(* state, a transition taken at every value drawn, and outputs computed    *)
(* from the state.  It is modelled as one with RngMod states.              *)

NextRng(s) == (5 * s + 3) % RngMod

RECURSIVE Advance(_, _)
Advance(s, k) == IF k <= 0 THEN s ELSE Advance(NextRng(s), k - 1)

\* Variant: leaves the generator in the state it was found in
NotSeeded(seed, r) == r

\* np.random.seed(seed)
Seeded(seed, r) == seed % RngMod

\* np.random.randint(lo, hi): lo <= value < hi
RandInt(u, lo, hi) == lo + (u * (hi - lo)) \div RngMod

\* np.round(np.random.uniform(10, 500), 2), in cents
RoundedUniform(u) == 1000 + (u * 49000) \div RngMod

RECURSIVE CumWeight(_, _)
CumWeight(w, k) == IF k = 0 THEN 0 ELSE w[k] + CumWeight(w, k - 1)

\* np.random.choice(list, p=weights): the first entry whose cumulative
\* weight exceeds the uniform draw
ChoiceWeighted(list, w, u) ==
    list[CHOOSE k \in DOMAIN list :
            /\ u * 100 < CumWeight(w, k) * RngMod
            /\ \A j \in 1..(k - 1) : u * 100 >= CumWeight(w, j) * RngMod]

\* np.random.choice(list)
ChoiceUniform(list, u) == list[1 + (u * Len(list)) \div RngMod]

Swap(a, i, j) == [a EXCEPT ![i] = a[j], ![j] = a[i]]

\* np.random.permutation(n): arange(n) shuffled from the last position down,
\* one draw per position; arr is 1-based here and holds 0-based indices
RECURSIVE ShuffleFrom(_, _, _)
ShuffleFrom(arr, s, i) ==
    IF i < 2 THEN arr
    ELSE LET s1 == NextRng(s)
             j == 1 + (s1 * i) \div RngMod
         IN ShuffleFrom(Swap(arr, i, j), s1, i - 1)

Permutation(n, s) == ShuffleFrom([i \in 1..n |-> i - 1], s, n)

PermutationDraws(n) == IF n >= 2 THEN n - 1 ELSE 0

\* f'ORD-{i:05d}'
RECURSIVE Digits(_)
Digits(i) == IF i < 10 THEN <<i>> ELSE Digits(i \div 10) \o <<i % 10>>

RECURSIVE ZeroPad(_, _)
ZeroPad(d, w) == IF Len(d) >= w THEN d ELSE ZeroPad(<<0>> \o d, w)

OrderId(i) == [prefix |-> "ORD-", digits |-> ZeroPad(Digits(i), 5)]

\* pd.date_range('2024-01-01', '2024-12-31', periods=n): n evenly spaced
\* instants; kept as the whole days since 1 January
OrderDate(i, n) == IF n = 1 THEN 0 ELSE ((i - 1) * 365) \div (n - 1)

DaysBeforeMonthEnd == <<31, 60, 91, 121, 152, 182, 213, 244, 274, 305, 335, 366>>

MonthOf(day) == CHOOSE m \in 1..12 :
    /\ day < DaysBeforeMonthEnd[m]
    /\ \A k \in 1..(m - 1) : day >= DaysBeforeMonthEnd[k]

QuarterOf(day) == (MonthOf(day) - 1) \div 3 + 1

\* The products drawn category by category (lines 85-88): for each category
\* in list order, one draw per row of that category, appended to one list.
RECURSIVE AssignProducts(_, _, _)
AssignProducts(cats, column, s) ==
    IF cats = <<>> THEN <<>>
    ELSE LET cat == Head(cats)
             IsCat(c) == c = cat
             n_cat == Len(SelectSeq(column, IsCat))
         IN [j \in 1..n_cat |-> ChoiceUniform(products[cat], Advance(s, j))]
            \o AssignProducts(Tail(cats), column, Advance(s, n_cat))

\* The table built from the state s0 the generator is in when drawing starts.
\* The columns are drawn whole, one after the other, in the order of the
\* dictionary literal; then the products; then the permutation.
GeneratedTable(n, s0) ==
    LET Draw(col, i) == Advance(s0, col * n + i)
        category == [i \in 1..n |->
                        ChoiceWeighted(categories, category_weights, Draw(1, i))]
        assigned == AssignProducts(categories, category, Advance(s0, 7 * n))
        indices == Permutation(n, Advance(s0, 8 * n))
        shuffled == [i \in 1..n |-> assigned[indices[i] + 1]]
        quantity == [i \in 1..n |-> RandInt(Draw(2, i), 1, 10)]
        unit_price == [i \in 1..n |-> RoundedUniform(Draw(3, i))]
    IN [i \in 1..n |->
          [Order_ID |-> OrderId(i),
           Order_Date |-> OrderDate(i, n),
           Customer_ID |-> RandInt(Draw(0, i), 1001, 1100),
           Product_Category |-> category[i],
           Product |-> shuffled[i],
           Quantity |-> quantity[i],
           Unit_Price |-> unit_price[i],
           Region |-> ChoiceWeighted(cities, city_weights, Draw(4, i)),
           Customer_Segment |-> ChoiceWeighted(segments, segment_weights, Draw(5, i)),
           Payment_Method |-> ChoiceWeighted(payments, payment_weights, Draw(6, i)),
           Total_Sales |-> quantity[i] * unit_price[i],
           Year |-> 2024,
           Month |-> MonthOf(OrderDate(i, n)),
           Quarter |-> QuarterOf(OrderDate(i, n))]]

DrawsMade(n) == 8 * n + PermutationDraws(n)

\* Variant: a count of zero is refused like a negative one
GenerateSampleDataRefusingZero(n, seed, r) ==
    LET s0 == Seeded(seed, r)
    IN IF n <= 0
       THEN [n |-> n, seed |-> seed, outcome |-> "ValueError", returned |-> FALSE,
             table |-> <<>>, draws |-> 0, entered |-> r, rng |-> s0]
       ELSE [n |-> n, seed |-> seed, outcome |-> "ok", returned |-> TRUE,
             table |-> GeneratedTable(n, s0), draws |-> DrawsMade(n),
             entered |-> r,
             rng |-> Advance(s0, DrawsMade(n))]

\* One call, entered with the process-wide generator in state r.  The seed is
\* applied first; a negative count then makes pd.date_range raise ValueError
\* before anything is drawn; a count of zero runs through with empty columns.
GenerateSampleData(n, seed, r) ==
    LET s0 == Seeded(seed, r)
    IN IF n < 0
       THEN [n |-> n, seed |-> seed, outcome |-> "ValueError", returned |-> FALSE,
             table |-> <<>>, draws |-> 0, entered |-> r, rng |-> s0]
       ELSE [n |-> n, seed |-> seed, outcome |-> "ok", returned |-> TRUE,
             table |-> GeneratedTable(n, s0), draws |-> DrawsMade(n),
             entered |-> r,
             rng |-> Advance(s0, DrawsMade(n))]

NoCall == [n |-> 0, seed |-> 0, outcome |-> "none", returned |-> FALSE,
           table |-> <<>>, draws |-> 0, entered |-> 0, rng |-> 0]

generate_sample_data ==
    /\ ncalls < 2
    /\ \E n \in (0 - MaxNeg)..MaxN, seed \in 0..MaxSeed :
          LET res == GenerateSampleData(n, seed, rng)
          IN /\ rng' = res.rng
             /\ IF ncalls = 0
                THEN call1' = res /\ UNCHANGED call2
                ELSE call2' = res /\ UNCHANGED call1
    /\ ncalls' = ncalls + 1
    /\ UNCHANGED pipeVars

\* Any other user of np.random in the process drawing a value
other_random_draw ==
    /\ rng' = NextRng(rng)
    /\ UNCHANGED <<ncalls, call1, call2>>
    /\ UNCHANGED pipeVars

-----------------------------------------------------------------------------
(* Input tables *)

MkRow(id, cat, prod, region, seg, qty, price, total, quarter) ==
    [Order_ID |-> OrderId(id), Order_Date |-> 0, Customer_ID |-> 1000 + id,
     Product_Category |-> cat, Product |-> prod, Quantity |-> qty,
     Unit_Price |-> price, Region |-> region, Customer_Segment |-> seg,
     Payment_Method |-> "Cash", Total_Sales |-> total, Year |-> 2024,
     Month |-> 3 * quarter, Quarter |-> quarter]

\* Rows for the cleaner: two valid ones, one failing each positivity test
\* alone, and one with a negative quantity
CleanRows ==
    {MkRow(1, "Books", "Fiction", "Perth", "New", 2, 3, 6, 1),
     MkRow(2, "Books", "Fiction", "Perth", "New", 1, 3, 3, 1),
     MkRow(3, "Books", "Fiction", "Perth", "New", 0, 3, 6, 1),
     MkRow(4, "Books", "Fiction", "Perth", "New", 2, 0, 6, 1),
     MkRow(5, "Books", "Fiction", "Perth", "New", 2, 3, 0, 1),
     MkRow(6, "Books", "Fiction", "Perth", "New", 0 - 1, 3, 0 - 3, 1)}

\* Rows for the aggregations: four key combinations in which every grouping
\* splits the rows differently, each with every sale amount
AggRows ==
    UNION {{MkRow(1, "Electronics", "Laptop", "Sydney", "VIP", 1, v, v, 1),
            MkRow(2, "Electronics", "Tablet", "Perth", "New", 1, v, v, 2),
            MkRow(3, "Clothing", "Jeans", "Sydney", "New", 1, v, v, 2),
            MkRow(4, "Clothing", "Jeans", "Perth", "VIP", 1, v, v, 1)}
           : v \in 1..MaxSale}

Tables(rows, maxLen) == UNION {[1..k -> rows] : k \in 0..maxLen}

\* Tables for the product ranking: each of the first NumTopProducts products
\* is absent (0), has one row (1) or has two rows (2); products descending
TopRowsOf(p, option) ==
    LET name == SortedProducts[p]
        one == MkRow(2 * p, "Books", name, "Perth", "New", 1, 2, 2, 1)
        two == MkRow(2 * p + 1, "Books", name, "Perth", "New", 1, 1, 1, 1)
    IN CASE option = 0 -> <<>>
         [] option = 1 -> <<one>>
         [] option = 2 -> <<two, one>>

RECURSIVE TopTableFrom(_, _)
TopTableFrom(f, p) ==
    IF p = 0 THEN <<>> ELSE TopRowsOf(p, f[p]) \o TopTableFrom(f, p - 1)

TopTables == {TopTableFrom(f, NumTopProducts) : f \in [1..NumTopProducts -> 0..2]}

-----------------------------------------------------------------------------
(* Specifications *)

GenIdle ==
    /\ rng = 0
    /\ ncalls = 0
    /\ call1 = NoCall
    /\ call2 = NoCall

PipeStart(t) ==
    /\ pc = "raw"
    /\ df = t
    /\ dfIn = <<>>
    /\ passes = 0
    /\ printed = NoPrint
    /\ stats = NoStats
    /\ insights = NoInsights
    /\ charts = NoCharts
    /\ outcome = "ok"

\* main() from the cleaning step on, for the cleaner's input tables
InitClean == GenIdle /\ \E t \in Tables(CleanRows, MaxRows) : PipeStart(t)

\* main() from the cleaning step on, for the aggregations' input tables
InitAgg == GenIdle /\ \E t \in Tables(AggRows, MaxRows) : PipeStart(t)

\* main() at its last step, holding a cleaned ranking table
InitTop ==
    /\ GenIdle
    /\ \E t \in TopTables \ {<<>>} :
          /\ pc = "insights"
          /\ df = t
          /\ dfIn = t
          /\ passes = 1
          /\ printed = CleaningPrints(t)
          /\ stats = DescriptiveStatistics(t)
          /\ insights = KeyInsights(t)
          /\ charts = NoCharts
          /\ outcome = "ok"

\* the generator alone, called twice in a process whose generator state is
\* whatever earlier code left
InitGen ==
    /\ rng \in 0..(RngMod - 1)
    /\ ncalls = 0
    /\ call1 = NoCall
    /\ call2 = NoCall
    /\ pc = "idle"
    /\ df = <<>>
    /\ dfIn = <<>>
    /\ passes = 0
    /\ printed = NoPrint
    /\ stats = NoStats
    /\ insights = NoInsights
    /\ charts = NoCharts
    /\ outcome = "ok"

NextPipe ==
    \/ data_cleaning
    \/ descriptive_statistics
    \/ key_insights
    \/ create_visualizations

NextTop == create_visualizations

NextGen ==
    \/ generate_sample_data
    \/ other_random_draw

SpecClean == InitClean /\ [][NextPipe]_vars
SpecAgg == InitAgg /\ [][NextPipe]_vars
SpecTop == InitTop /\ [][NextTop]_vars
SpecGen == InitGen /\ [][NextGen]_vars

-----------------------------------------------------------------------------
(* Properties.  The quantities they compare the program's results with are *)
(* defined here over index sets, apart from the operators above.           *)

Calls == {c \in {call1, call2} : c.outcome # "none"}

RECURSIVE SalesOver(_, _)
SalesOver(t, I) ==
    IF I = {} THEN 0
    ELSE LET i == CHOOSE x \in I : TRUE
         IN t[i].Total_Sales + SalesOver(t, I \ {i})

RowsWith(t, field, k) == {i \in DOMAIN t : t[i][field] = k}

KeysIn(t, field) == {t[i][field] : i \in DOMAIN t}

SalesOf(t, field, k) == SalesOver(t, RowsWith(t, field, k))

RankOf(field, k) == CHOOSE j \in DOMAIN KeyOrder(field) : KeyOrder(field)[j] = k

Cleaned == passes >= 1

Aggregated == pc \in {"stats", "insights", "done", "failed"}

Extracted == pc \in {"insights", "done"}

\* C1: every record of a returned table has a product that belongs to the
\* products of its own category.
C1_ProductInCategory ==
    \A c \in Calls : \A i \in DOMAIN c.table :
        c.table[i].Product \in Range(products[c.table[i].Product_Category])

\* The rows of t that data_cleaning is to keep: not equal to an earlier row,
\* and positive in quantity, unit price and total sales
Survivors(t) ==
    {i \in DOMAIN t :
        /\ \A j \in 1..(i - 1) : t[j] # t[i]
        /\ t[i].Quantity > 0
        /\ t[i].Unit_Price > 0
        /\ t[i].Total_Sales > 0}

NthOf(I, k) == CHOOSE i \in I : Cardinality({j \in I : j < i}) = k - 1

\* C2: the cleaned table is exactly the input rows that do not repeat an
\* earlier row and are positive in Quantity, Unit_Price and Total_Sales, in
\* input order.
C2_CleaningKeepsSurvivors ==
    Cleaned =>
        /\ Len(df) = Cardinality(Survivors(dfIn))
        /\ \A k \in DOMAIN df : df[k] = dfIn[NthOf(Survivors(dfIn), k)]
        /\ \A k \in DOMAIN df :
              df[k].Quantity > 0 /\ df[k].Unit_Price > 0 /\ df[k].Total_Sales > 0

C2_Witness ==
    /\ Cleaned
    /\ Len(dfIn) = 3
    /\ Len(df) = 1
    /\ dfIn[1] = dfIn[2]
    /\ dfIn[3].Quantity <= 0
    /\ df[1] = dfIn[1]

Repeats(t) == {i \in DOMAIN t : \E j \in 1..(i - 1) : t[j] = t[i]}

\* C3: the cleaner reports two counts, duplicates_removed (rows equal to an
\* earlier row) and invalid_removed (remaining rows failing positivity), which
\* with the output row count add up to the input row count.
C3_RemovalReport ==
    Cleaned =>
        /\ DOMAIN printed = {"duplicates_removed", "invalid_removed"}
        /\ printed.duplicates_removed = Cardinality(Repeats(dfIn))
        /\ printed.invalid_removed =
              Len(dfIn) - Cardinality(Repeats(dfIn)) - Len(df)
        /\ printed.duplicates_removed + printed.invalid_removed + Len(df) = Len(dfIn)

\* C4: a descriptive_statistics or key_insights call on a table of zero rows
\* ends in the empty-dataset error and never completes normally.
C4_EmptyDatasetError ==
    (Aggregated /\ Len(df) = 0) => (pc = "failed" /\ outcome = "EmptyDatasetError")

ArgMaxOf(t, field, key) ==
    /\ key \in KeysIn(t, field)
    /\ \A k \in KeysIn(t, field) :
          /\ SalesOf(t, field, key) >= SalesOf(t, field, k)
          /\ SalesOf(t, field, k) = SalesOf(t, field, key)
                => RankOf(field, key) <= RankOf(field, k)

\* C6: for each of the four groupings key_insights reports a key whose sum is
\* at least every other group's, the first such key in the grouping's order,
\* and the amount reported with it is that key's sum.
C6_ArgMax ==
    Extracted =>
        /\ ArgMaxOf(df, "Product_Category", insights.best_category)
        /\ insights.best_category_sales =
              SalesOf(df, "Product_Category", insights.best_category)
        /\ ArgMaxOf(df, "Region", insights.top_region)
        /\ insights.top_region_sales = SalesOf(df, "Region", insights.top_region)
        /\ ArgMaxOf(df, "Product", insights.top_product)
        /\ insights.top_product_sales = SalesOf(df, "Product", insights.top_product)
        /\ ArgMaxOf(df, "Customer_Segment", insights.top_segment)

C6_Witness ==
    /\ pc = "insights"
    /\ KeysIn(df, "Region") = {"Perth", "Sydney"}
    /\ SalesOf(df, "Region", "Perth") = SalesOf(df, "Region", "Sydney")
    /\ insights.top_region = "Perth"
    /\ SalesOf(df, "Product_Category", "Electronics")
          > SalesOf(df, "Product_Category", "Clothing")
    /\ insights.best_category = "Electronics"

GroupKeys(g) == {g[j].key : j \in DOMAIN g}

\* The part of C7 for one table of groups
PartitionOf(t, field, g) ==
    /\ GroupKeys(g) = KeysIn(t, field)
    /\ Cardinality(GroupKeys(g)) = Len(g)
    /\ SumSeq([j \in DOMAIN g |-> g[j].sum]) = SalesOver(t, DOMAIN t)
    /\ SumSeq([j \in DOMAIN g |-> g[j].count]) = Len(t)
    /\ \A j \in DOMAIN g :
          /\ g[j].count >= 1
          /\ g[j].count = Cardinality(RowsWith(t, field, g[j].key))
          /\ g[j].sum = SalesOf(t, field, g[j].key)
          /\ g[j].mean.den # 0
          /\ g[j].mean.num * g[j].count = g[j].sum * g[j].mean.den

\* C7: the groups descriptive_statistics reports partition the table: their
\* sums add up to the total sales, their counts to the row count, no group
\* is empty, and each mean is the group's sum over its count.
C7_GroupsPartition ==
    (Aggregated /\ pc # "failed") =>
        /\ stats.total_sales = SalesOver(df, DOMAIN df)
        /\ stats.total_orders = Len(df)
        /\ PartitionOf(df, "Product_Category", stats.category_sales)
        /\ PartitionOf(df, "Region", stats.region_sales)

C7_Witness ==
    /\ pc = "stats"
    /\ Len(df) = 3
    /\ Len(stats.category_sales) = 2
    /\ Len(stats.region_sales) = 2
    /\ stats.category_sales[1].count = 2
    /\ stats.category_sales[1].sum = 3

\* C8: the product ranking is sorted by sum descending, holds
\* min(TopN, distinct products) products of the table with their sums, and
\* no product left out has a larger sum than one included.
C8_TopProducts ==
    pc = "done" =>
        LET top == charts.top_products
            present == KeysIn(df, "Product")
        IN /\ Len(top) = Min(TopN, Cardinality(present))
           /\ \A i, j \in DOMAIN top : i < j => top[i].sum >= top[j].sum
           /\ Cardinality(GroupKeys(top)) = Len(top)
           /\ GroupKeys(top) \subseteq present
           /\ \A j \in DOMAIN top : top[j].sum = SalesOf(df, "Product", top[j].key)
           /\ \A k \in present \ GroupKeys(top) : \A j \in DOMAIN top :
                 SalesOf(df, "Product", k) <= top[j].sum

C8_Witness ==
    /\ pc = "done"
    /\ Cardinality(KeysIn(df, "Product")) > TopN
    /\ Len(charts.top_products) = TopN
    /\ charts.top_products[1].sum > charts.top_products[TopN].sum
    /\ \E k \in KeysIn(df, "Product") \ GroupKeys(charts.top_products) :
          SalesOf(df, "Product", k) < charts.top_products[1].sum

\* C9: a data_cleaning call on the table an earlier data_cleaning call
\* returned gives back the same rows in the same order, and removes no
\* duplicate and no invalid row.
C9_CleaningIdempotent ==
    passes >= 2 =>
        /\ df = dfIn
        /\ printed.duplicates_removed = 0
        /\ printed.records_after = Len(dfIn)

C9_Witness ==
    /\ passes = 2
    /\ Len(df) = 2
    /\ printed.duplicates_removed = 0

OrderIdsDistinct(t) == \A i, j \in DOMAIN t : i # j => t[i].Order_ID # t[j].Order_ID

\* C10: two calls with the same n and seed return the same table, whatever
\* was drawn from the process-wide generator before or between them; a
\* returned table has n rows with pairwise distinct Order_ID.
C10_Deterministic ==
    /\ \A c \in Calls : c.returned => (Len(c.table) = c.n /\ OrderIdsDistinct(c.table))
    /\ (ncalls = 2 /\ call1.n = call2.n /\ call1.seed = call2.seed)
          => (call1.outcome = call2.outcome /\ call1.table = call2.table)

C10_Witness ==
    /\ ncalls = 2
    /\ call1.n = call2.n
    /\ call1.seed = call2.seed
    /\ call1.n >= 2
    /\ call1.returned /\ call2.returned
    /\ call1.table = call2.table
    /\ call1.entered # call2.entered
    /\ call2.entered # call1.rng

=============================================================================
